---- MODULE Spec2Model ----
(***************************************************************************)
(* Document-intake checklist reconciliation (phmarcel-rpg).                *)
(*                                                                         *)
(* State: the four tables (clients, intakes, checklist_items, documents)   *)
(* and the status code of the last completed HTTP request (0: none yet).   *)
(* Every handler of app/api is one atomic action: it runs to its return or *)
(* to the HTTPException it raises, and what it flushed is committed when   *)
(* it returns.  Rows are keyed by their position in the table (the uuid    *)
(* primary key is a fresh identifier, here the next index).  The           *)
(* classification/extraction model is an external oracle: its outcome is   *)
(* drawn nondeterministically by the action that calls it.                 *)
(*                                                                         *)
(* Two further specifications run the single-document extraction handler   *)
(* one awaited database call at a time (inflight holds the position and    *)
(* the session-local values of each running request): SpecInterleaved      *)
(* lets two such requests interleave, SpecFailing lets an awaited          *)
(* database call of one request raise.  Every query reads the committed    *)
(* tables as they are when it runs (the pysqlite driver opens no           *)
(* transaction before the first write); every commit writes the            *)
(* attributes the session changed.  SpecCreateRace runs create_intake in   *)
(* two steps, its lookups and its insert, for two requests at once.        *)
(***************************************************************************)
EXTENDS Integers, Sequences, FiniteSets, TLC

\* ---------------------------------------------------------------- bounds
MaxDocs == 2          \* rows the documents table may hold
MaxIntakes == 3       \* rows the intakes table may hold in SpecCreateRace

\* ---------------------------------------------------------------- inputs
Emails      == {"test@example.com"}
FirstYear   == 2024
FiscalYears == {FirstYear, FirstYear + 1}
Filenames   == {"T4_sample.JPG", "T4_sample_duplicate.JPG"}
\* File contents (byte strings), numbered; MaxDocs rows hold at most MaxDocs
\* different ones.
Contents    == 1..MaxDocs

\* ---------------------------------------------------------------- enums
ClientComplexity == {"simple", "average", "complex"}
IntakeStatus     == {"open", "done"}
DocKind          == {"T4", "receipt", "id", "unknown"}
ChecklistStatus  == {"missing", "received"}

NULL == "NULL"
\* What Model.model_dump(mode='json') yields: a dict holding every field of
\* the schema (values possibly None), hence never None and never empty.
Fields == "fields"

\* Requests that can be in progress at once
Procs == {"A", "B"}
\* A request slot with no request running
Idle == [pc |-> "idle", document_id |-> 0, loaded |-> NULL,
         extracted_count |-> 0, missing_items |-> 0,
         client_id |-> 0, fiscal_year |-> 0]

\* Outcomes of qwen3vl_service.classify_document as seen by its callers:
\* one of the four category names, a value DocKind() rejects, or an exception.
ClassifyOutcomes == DocKind \cup {"invalid", "raise"}
\* Outcomes of qwen3vl_service.extract_*: a schema instance or an exception.
ExtractOutcomes == {"ok", "raise"}

VARIABLES clients, intakes, checklist_items, documents, response, inflight

vars == <<clients, intakes, checklist_items, documents, response, inflight>>


\* ------------------------------------------------------------ pure helpers
\* hashlib.sha256(file_content).hexdigest(): a deterministic function of the
\* bytes alone; distinct contents of the model have distinct digests.
calculate_sha256(file_content) == 1000 + file_content

expected_receipt_count(complexity) ==
    IF complexity = "simple" THEN 0
    ELSE IF complexity = "average" THEN 2
    ELSE IF complexity = "complex" THEN 5
    ELSE 0

expected_document_count(complexity) ==
    IF complexity = "simple" THEN 2
    ELSE IF complexity = "average" THEN 4
    ELSE IF complexity = "complex" THEN 8
    ELSE 0

RECURSIVE SumOver(_, _)
SumOver(S, field) ==
    IF S = {} THEN 0
    ELSE LET x == CHOOSE y \in S : TRUE
         IN  x[field] + SumOver(S \ {x}, field)

ItemsOf(itms, intake_id) == {it \in itms : it.intake_id = intake_id}

\* Intake.is_complete
is_complete(itms, intake_id) ==
    IF ItemsOf(itms, intake_id) = {} THEN FALSE
    ELSE \A it \in ItemsOf(itms, intake_id) : it.status = "received"

\* ChecklistItem.is_complete
item_is_complete(it) == it.quantity_received >= it.quantity_expected

\* ChecklistItem.progress_percentage, in whole percent (floor of the float)
progress_percentage(it) ==
    IF it.quantity_expected = 0 THEN 0
    ELSE (it.quantity_received * 100) \div it.quantity_expected

\* ------------------------------------------------------- reconciliation
\* Variant of check_and_update_intake_status: tolerates one missing item.
check_and_update_intake_status_off_by_one(itms, intks, intake_id) ==
    IF intake_id \notin DOMAIN intks THEN intks
    ELSE LET missing_items ==
                 Cardinality({it \in itms : it.intake_id = intake_id
                                            /\ it.status = "missing"})
         IN  IF missing_items <= 1
             THEN [intks EXCEPT ![intake_id].status = "done"]
             ELSE intks

check_and_update_intake_status(itms, intks, intake_id) ==
    IF intake_id \notin DOMAIN intks THEN intks
    ELSE LET missing_items ==
                 Cardinality({it \in itms : it.intake_id = intake_id
                                            /\ it.status = "missing"})
         IN  IF missing_items = 0
             THEN [intks EXCEPT ![intake_id].status = "done"]
             ELSE intks


\* Variant of extracted_count: the recount leaves out the extracted_data
\* filter and counts every document of the kind.
extracted_count_any_document(docs, intake_id, doc_kind) ==
    Cardinality({k \in DOMAIN docs : /\ docs[k].intake_id = intake_id
                                     /\ docs[k].doc_kind = doc_kind})

\* The recount of update_checklist_for_document (lines 31-38)
extracted_count(docs, intake_id, doc_kind) ==
    Cardinality({k \in DOMAIN docs : /\ docs[k].intake_id = intake_id
                                     /\ docs[k].doc_kind = doc_kind
                                     /\ docs[k].extracted_data # NULL})

\* Variant of update_item: increments (ChecklistItem.increment_received)
\* instead of storing the recount.
update_item_increment(it, count) ==
    [it EXCEPT !.quantity_received = @ + 1,
               !.status = IF it.quantity_received + 1 >= it.quantity_expected
                          THEN "received" ELSE it.status]

\* The item write of update_checklist_for_document (lines 40-42)
update_item(it, count) ==
    [it EXCEPT !.quantity_received = count,
               !.status = IF count >= it.quantity_expected
                          THEN "received" ELSE it.status]


\* Variant of update_checklist_for_document: a kind without a checklist item
\* gets one (get-or-create).
update_checklist_for_document_get_or_create(itms, intks, docs, d) ==
    LET document == docs[d]
        matching == {it \in itms : /\ it.intake_id = document.intake_id
                                   /\ it.doc_kind = document.doc_kind}
        count    == extracted_count(docs, document.intake_id,
                                    document.doc_kind)
    IN  IF document.doc_kind = "unknown" \/ document.extracted_data = NULL
        THEN [items |-> itms, intakes |-> intks]
        ELSE LET checklist_item ==
                     IF matching = {}
                     THEN [intake_id |-> document.intake_id,
                           doc_kind |-> document.doc_kind,
                           status |-> "missing",
                           quantity_expected |-> 1, quantity_received |-> 0]
                     ELSE CHOOSE it \in matching : TRUE
                 itms2 == (itms \ {checklist_item})
                             \cup {update_item(checklist_item, count)}
             IN  [items   |-> itms2,
                  intakes |-> check_and_update_intake_status(
                                  itms2, intks, document.intake_id)]


\* Variant of update_checklist_for_document: the updated item is stored as a
\* new row and the old row is kept.
update_checklist_for_document_inserts_row(itms, intks, docs, d) ==
    LET document == docs[d]
        matching == {it \in itms : /\ it.intake_id = document.intake_id
                                   /\ it.doc_kind = document.doc_kind}
    IN  IF document.doc_kind = "unknown" \/ document.extracted_data = NULL
        THEN [items |-> itms, intakes |-> intks]
        ELSE IF matching = {}
        THEN [items |-> itms, intakes |-> intks]
        ELSE LET checklist_item == CHOOSE it \in matching : TRUE
                 count   == extracted_count(docs, document.intake_id,
                                            document.doc_kind)
                 itms2   == itms \cup {update_item(checklist_item, count)}
             IN  [items   |-> itms2,
                  intakes |-> check_and_update_intake_status(
                                  itms2, intks, document.intake_id)]


\* Variant of update_checklist_for_document: the item lookup leaves out the
\* intake and every item of the document's kind is updated.
update_checklist_for_document_any_intake(itms, intks, docs, d) ==
    LET document == docs[d]
        matching == {it \in itms : it.doc_kind = document.doc_kind}
        count    == extracted_count(docs, document.intake_id,
                                    document.doc_kind)
    IN  IF document.doc_kind = "unknown" \/ document.extracted_data = NULL
        THEN [items |-> itms, intakes |-> intks]
        ELSE IF matching = {}
        THEN [items |-> itms, intakes |-> intks]
        ELSE LET itms2 == (itms \ matching)
                             \cup {update_item(it, count) : it \in matching}
             IN  [items   |-> itms2,
                  intakes |-> check_and_update_intake_status(
                                  itms2, intks, document.intake_id)]

\* Returns the checklist_items and intakes tables after reconciliation for
\* document number d of docs.
update_checklist_for_document(itms, intks, docs, d) ==
    LET document == docs[d]
        matching == {it \in itms : /\ it.intake_id = document.intake_id
                                   /\ it.doc_kind = document.doc_kind}
    IN  IF document.doc_kind = "unknown" \/ document.extracted_data = NULL
        THEN [items |-> itms, intakes |-> intks]
        ELSE IF Cardinality(matching) # 1
        THEN [items |-> itms, intakes |-> intks]
        ELSE LET checklist_item == CHOOSE it \in matching : TRUE
                 count   == extracted_count(docs, document.intake_id,
                                            document.doc_kind)
                 itms2   == (itms \ {checklist_item})
                               \cup {update_item(checklist_item, count)}
             IN  [items   |-> itms2,
                  intakes |-> check_and_update_intake_status(
                                  itms2, intks, document.intake_id)]

\* ------------------------------------------------------------------ Init
Init ==
    /\ clients = <<>>
    /\ intakes = <<>>
    /\ checklist_items = {}
    /\ documents = <<>>
    /\ response = 0
    /\ inflight = [p \in Procs |-> Idle]

\* --------------------------------------------------------------- actions
create_client(email, complexity) ==
    IF \E c \in DOMAIN clients : clients[c].email = email
    THEN /\ response' = 409
         /\ UNCHANGED <<clients, intakes, checklist_items, documents>>
    ELSE /\ clients' = Append(clients, [email |-> email,
                                        complexity |-> complexity])
         /\ response' = 201
         /\ UNCHANGED <<intakes, checklist_items, documents>>


\* Variant of new_checklist_items: the receipt row is added whatever the
\* receipt count is.
new_checklist_items_no_guard(intake_id, complexity) ==
    LET receipt_count == expected_receipt_count(complexity)
    IN  {[intake_id |-> intake_id, doc_kind |-> "T4", status |-> "missing",
          quantity_expected |-> 1, quantity_received |-> 0],
         [intake_id |-> intake_id, doc_kind |-> "id", status |-> "missing",
          quantity_expected |-> 1, quantity_received |-> 0],
         [intake_id |-> intake_id, doc_kind |-> "receipt",
          status |-> "missing",
          quantity_expected |-> receipt_count, quantity_received |-> 0]}

\* The rows create_intake adds to checklist_items (lines 83-110)
new_checklist_items(intake_id, complexity) ==
    LET receipt_count == expected_receipt_count(complexity)
    IN  {[intake_id |-> intake_id, doc_kind |-> "T4", status |-> "missing",
          quantity_expected |-> 1, quantity_received |-> 0],
         [intake_id |-> intake_id, doc_kind |-> "id", status |-> "missing",
          quantity_expected |-> 1, quantity_received |-> 0]}
        \cup
        (IF receipt_count > 0
         THEN {[intake_id |-> intake_id, doc_kind |-> "receipt",
                status |-> "missing",
                quantity_expected |-> receipt_count, quantity_received |-> 0]}
         ELSE {})


\* Variant of create_intake: the uniqueness lookup leaves out the fiscal
\* year (one intake per client).
create_intake_one_per_client(client_id, fiscal_year) ==
    IF client_id \notin DOMAIN clients
    THEN /\ response' = 404
         /\ UNCHANGED <<clients, intakes, checklist_items, documents>>
    ELSE IF \E i \in DOMAIN intakes : intakes[i].client_id = client_id
    THEN /\ response' = 409
         /\ UNCHANGED <<clients, intakes, checklist_items, documents>>
    ELSE /\ intakes' = Append(intakes, [client_id |-> client_id,
                                        fiscal_year |-> fiscal_year,
                                        status |-> "open"])
         /\ checklist_items' = checklist_items \cup
                new_checklist_items(Len(intakes) + 1,
                                    clients[client_id].complexity)
         /\ response' = 201
         /\ UNCHANGED <<clients, documents>>

create_intake(client_id, fiscal_year) ==
    IF client_id \notin DOMAIN clients
    THEN /\ response' = 404
         /\ UNCHANGED <<clients, intakes, checklist_items, documents>>
    ELSE IF \E i \in DOMAIN intakes : /\ intakes[i].client_id = client_id
                                      /\ intakes[i].fiscal_year = fiscal_year
    THEN /\ response' = 409
         /\ UNCHANGED <<clients, intakes, checklist_items, documents>>
    ELSE /\ intakes' = Append(intakes, [client_id |-> client_id,
                                        fiscal_year |-> fiscal_year,
                                        status |-> "open"])
         /\ checklist_items' = checklist_items \cup
                new_checklist_items(Len(intakes) + 1,
                                    clients[client_id].complexity)
         /\ response' = 201
         /\ UNCHANGED <<clients, documents>>

\* Variant of existing_doc: the lookup leaves out the intake.
existing_doc_any_intake(docs, intake_id, sha256_hash) ==
    {k \in DOMAIN docs : docs[k].sha256 = sha256_hash}

\* The duplicate lookup of upload_document (lines 178-184)
existing_doc(docs, intake_id, sha256_hash) ==
    {k \in DOMAIN docs : /\ docs[k].intake_id = intake_id
                         /\ docs[k].sha256 = sha256_hash}

\* The unique index idx_intake_sha256 of the documents table: would a row
\* with this intake and hash violate it (IntegrityError on flush)?
idx_intake_sha256(docs, intake_id, sha256_hash) ==
    \E k \in DOMAIN docs : /\ docs[k].intake_id = intake_id
                           /\ docs[k].sha256 = sha256_hash

\* Variant of upload_document: duplicates are recognised by file name, and
\* the table has no unique index.
upload_document_by_filename(intake_id, filename, file_content) ==
    IF intake_id \notin DOMAIN intakes
    THEN /\ response' = 404
         /\ UNCHANGED <<clients, intakes, checklist_items, documents>>
    ELSE IF \E k \in DOMAIN documents : /\ documents[k].intake_id = intake_id
                                        /\ documents[k].filename = filename
    THEN /\ response' = 409
         /\ UNCHANGED <<clients, intakes, checklist_items, documents>>
    ELSE /\ Len(documents) < MaxDocs
         /\ documents' = Append(documents,
               [intake_id |-> intake_id, filename |-> filename,
                sha256 |-> calculate_sha256(file_content),
                doc_kind |-> "unknown", extracted_data |-> NULL])
         /\ response' = 201
         /\ UNCHANGED <<clients, intakes, checklist_items>>


\* Variant of upload_document: an accepted upload re-opens the intake.
upload_document_reopens(intake_id, filename, file_content) ==
    IF intake_id \notin DOMAIN intakes
    THEN /\ response' = 404
         /\ UNCHANGED <<clients, intakes, checklist_items, documents>>
    ELSE LET sha256_hash == calculate_sha256(file_content)
         IN  IF existing_doc(documents, intake_id, sha256_hash) # {}
             THEN /\ response' = 409
                  /\ UNCHANGED <<clients, intakes, checklist_items, documents>>
             ELSE /\ Len(documents) < MaxDocs
                  /\ documents' = Append(documents,
                        [intake_id |-> intake_id, filename |-> filename,
                         sha256 |-> sha256_hash, doc_kind |-> "unknown",
                         extracted_data |-> NULL])
                  /\ intakes' = [intakes EXCEPT ![intake_id].status = "open"]
                  /\ response' = 201
                  /\ UNCHANGED <<clients, checklist_items>>

upload_document(intake_id, filename, file_content) ==
    IF intake_id \notin DOMAIN intakes
    THEN /\ response' = 404
         /\ UNCHANGED <<clients, intakes, checklist_items, documents>>
    ELSE LET sha256_hash == calculate_sha256(file_content)
         IN  IF existing_doc(documents, intake_id, sha256_hash) # {}
             THEN /\ response' = 409
                  /\ UNCHANGED <<clients, intakes, checklist_items, documents>>
             ELSE IF idx_intake_sha256(documents, intake_id, sha256_hash)
             THEN /\ response' = 409
                  /\ UNCHANGED <<clients, intakes, checklist_items, documents>>
             ELSE /\ Len(documents) < MaxDocs
                  /\ documents' = Append(documents,
                        [intake_id |-> intake_id, filename |-> filename,
                         sha256 |-> sha256_hash, doc_kind |-> "unknown",
                         extracted_data |-> NULL])
                  /\ response' = 201
                  /\ UNCHANGED <<clients, intakes, checklist_items>>


\* Variant of classify_document: a failed classification stores the kind
\* "unknown" before the error is answered.
classify_document_fallback_unknown(document_id, outcome) ==
    IF document_id \notin DOMAIN documents
    THEN /\ response' = 404
         /\ UNCHANGED <<clients, intakes, checklist_items, documents>>
    ELSE IF outcome \in DocKind
    THEN /\ documents' = [documents EXCEPT ![document_id].doc_kind = outcome]
         /\ response' = 200
         /\ UNCHANGED <<clients, intakes, checklist_items>>
    ELSE /\ documents' = [documents EXCEPT ![document_id].doc_kind = "unknown"]
         /\ response' = 500
         /\ UNCHANGED <<clients, intakes, checklist_items>>

classify_document(document_id, outcome) ==
    IF document_id \notin DOMAIN documents
    THEN /\ response' = 404
         /\ UNCHANGED <<clients, intakes, checklist_items, documents>>
    ELSE IF outcome \in DocKind
    THEN /\ documents' = [documents EXCEPT ![document_id].doc_kind = outcome]
         /\ response' = 200
         /\ UNCHANGED <<clients, intakes, checklist_items>>
    ELSE /\ response' = 500
         /\ UNCHANGED <<clients, intakes, checklist_items, documents>>

\* The store-then-reconcile step shared by both extraction handlers
\* (documents.py lines 113-118, intakes.py lines 315-320): the tables after
\* document d received its extracted data.
extract_write(docs, itms, intks, d) ==
    LET docs2 == [docs EXCEPT ![d].extracted_data = Fields]
        r     == update_checklist_for_document(itms, intks, docs2, d)
    IN  [documents |-> docs2, items |-> r.items, intakes |-> r.intakes]


\* Variant of extract_document: no check of the document's kind.
extract_document_no_kind_check(document_id, outcome) ==
    IF document_id \notin DOMAIN documents
    THEN /\ response' = 404
         /\ UNCHANGED <<clients, intakes, checklist_items, documents>>
    ELSE IF outcome = "raise"
    THEN /\ response' = 500
         /\ UNCHANGED <<clients, intakes, checklist_items, documents>>
    ELSE LET w == extract_write(documents, checklist_items, intakes,
                                document_id)
         IN  /\ documents' = w.documents
             /\ checklist_items' = w.items
             /\ intakes' = w.intakes
             /\ response' = 200
             /\ UNCHANGED clients

\* Variant of extract_document: a failed extraction is retried until it
\* succeeds.
extract_document_retry(document_id, outcome) ==
    IF document_id \notin DOMAIN documents
    THEN /\ response' = 404
         /\ UNCHANGED <<clients, intakes, checklist_items, documents>>
    ELSE IF documents[document_id].doc_kind = "unknown"
    THEN /\ response' = 400
         /\ UNCHANGED <<clients, intakes, checklist_items, documents>>
    ELSE LET w == extract_write(documents, checklist_items, intakes,
                                document_id)
         IN  /\ documents' = w.documents
             /\ checklist_items' = w.items
             /\ intakes' = w.intakes
             /\ response' = 200
             /\ UNCHANGED clients

extract_document(document_id, outcome) ==
    IF document_id \notin DOMAIN documents
    THEN /\ response' = 404
         /\ UNCHANGED <<clients, intakes, checklist_items, documents>>
    ELSE IF documents[document_id].doc_kind = "unknown"
    THEN /\ response' = 400
         /\ UNCHANGED <<clients, intakes, checklist_items, documents>>
    ELSE IF outcome = "raise"
    THEN /\ response' = 500
         /\ UNCHANGED <<clients, intakes, checklist_items, documents>>
    ELSE LET w == extract_write(documents, checklist_items, intakes,
                                document_id)
         IN  /\ documents' = w.documents
             /\ checklist_items' = w.items
             /\ intakes' = w.intakes
             /\ response' = 200
             /\ UNCHANGED clients

\* The unknown documents of an intake (classify_intake_documents, lines 233-239)
unknown_docs(docs, intake_id) ==
    {k \in DOMAIN docs : /\ docs[k].intake_id = intake_id
                         /\ docs[k].doc_kind = "unknown"}

\* outcomes: the classifier's answer for each unknown document of the intake
classify_intake_documents(intake_id, outcomes) ==
    IF intake_id \notin DOMAIN intakes
    THEN /\ response' = 404
         /\ UNCHANGED <<clients, intakes, checklist_items, documents>>
    ELSE IF unknown_docs(documents, intake_id) = {}
    THEN /\ response' = 400
         /\ UNCHANGED <<clients, intakes, checklist_items, documents>>
    ELSE /\ documents' =
               [k \in DOMAIN documents |->
                   IF k \in unknown_docs(documents, intake_id)
                      /\ outcomes[k] \in DocKind
                   THEN [documents[k] EXCEPT !.doc_kind = outcomes[k]]
                   ELSE documents[k]]
         /\ response' = 200
         /\ UNCHANGED <<clients, intakes, checklist_items>>

\* The classified documents of an intake (extract_intake_documents, lines 286-292)
classified_docs(docs, intake_id) ==
    {k \in DOMAIN docs : /\ docs[k].intake_id = intake_id
                         /\ docs[k].doc_kind # "unknown"}

\* The loop of extract_intake_documents (lines 300-330) from document k on,
\* over the rows in primary-key order.  st holds the three tables written
\* by the loop and the list of documents extracted so far.
RECURSIVE extract_loop(_, _, _, _)
extract_loop(st, todo, outcomes, k) ==
    IF k > Len(st.documents) THEN st
    ELSE IF k \notin todo \/ st.documents[k].extracted_data # NULL
            \/ outcomes[k] = "raise"
    THEN extract_loop(st, todo, outcomes, k + 1)
    ELSE LET w == extract_write(st.documents, st.items, st.intakes, k)
         IN  extract_loop([documents |-> w.documents, items |-> w.items,
                           intakes |-> w.intakes,
                           extracted |-> Append(st.extracted, k)],
                          todo, outcomes, k + 1)


\* Variant of extract_intake_documents: the first failing extraction aborts
\* the batch (500, nothing stored).
extract_intake_documents_abort(intake_id, outcomes) ==
    IF intake_id \notin DOMAIN intakes
    THEN /\ response' = 404
         /\ UNCHANGED <<clients, intakes, checklist_items, documents>>
    ELSE IF classified_docs(documents, intake_id) = {}
    THEN /\ response' = 400
         /\ UNCHANGED <<clients, intakes, checklist_items, documents>>
    ELSE IF \E k \in classified_docs(documents, intake_id) :
               documents[k].extracted_data = NULL /\ outcomes[k] = "raise"
    THEN /\ response' = 500
         /\ UNCHANGED <<clients, intakes, checklist_items, documents>>
    ELSE LET st == extract_loop([documents |-> documents,
                                 items |-> checklist_items,
                                 intakes |-> intakes, extracted |-> <<>>],
                                classified_docs(documents, intake_id),
                                outcomes, 1)
         IN  /\ documents' = st.documents
             /\ checklist_items' = st.items
             /\ intakes' = st.intakes
             /\ response' = 200
             /\ UNCHANGED clients

\* outcomes: the extractor's answer for each classified document of the intake
extract_intake_documents(intake_id, outcomes) ==
    IF intake_id \notin DOMAIN intakes
    THEN /\ response' = 404
         /\ UNCHANGED <<clients, intakes, checklist_items, documents>>
    ELSE IF classified_docs(documents, intake_id) = {}
    THEN /\ response' = 400
         /\ UNCHANGED <<clients, intakes, checklist_items, documents>>
    ELSE LET st == extract_loop([documents |-> documents,
                                 items |-> checklist_items,
                                 intakes |-> intakes, extracted |-> <<>>],
                                classified_docs(documents, intake_id),
                                outcomes, 1)
         IN  /\ documents' = st.documents
             /\ checklist_items' = st.items
             /\ intakes' = st.intakes
             /\ response' = 200
             /\ UNCHANGED clients


\* Variant of checklist_view: total_received is the number of received
\* items instead of the sum of the received quantities.
checklist_view_counts_items(itms, intks, intake_id) ==
    LET its            == ItemsOf(itms, intake_id)
        total_expected == SumOver(its, "quantity_expected")
        total_received == Cardinality({it \in its : it.status = "received"})
    IN  [intake_status    |-> intks[intake_id].status,
         is_complete      |-> is_complete(itms, intake_id),
         items            |-> {[doc_kind |-> it.doc_kind, status |-> it.status,
                                quantity_expected |-> it.quantity_expected,
                                quantity_received |-> it.quantity_received,
                                is_complete |-> item_is_complete(it),
                                progress_percentage |-> progress_percentage(it)]
                               : it \in its},
         total_expected   |-> total_expected,
         total_received   |-> total_received,
         overall_progress |-> IF total_expected > 0
                              THEN (total_received * 100) \div total_expected
                              ELSE 0]

\* ------------------------------------------------------ checklist read view
\* The body of the ChecklistResponse of get_intake_checklist (lines 48-74)
checklist_view(itms, intks, intake_id) ==
    LET its            == ItemsOf(itms, intake_id)
        total_expected == SumOver(its, "quantity_expected")
        total_received == SumOver(its, "quantity_received")
    IN  [intake_status    |-> intks[intake_id].status,
         is_complete      |-> is_complete(itms, intake_id),
         items            |-> {[doc_kind |-> it.doc_kind, status |-> it.status,
                                quantity_expected |-> it.quantity_expected,
                                quantity_received |-> it.quantity_received,
                                is_complete |-> item_is_complete(it),
                                progress_percentage |-> progress_percentage(it)]
                               : it \in its},
         total_expected   |-> total_expected,
         total_received   |-> total_received,
         overall_progress |-> IF total_expected > 0
                              THEN (total_received * 100) \div total_expected
                              ELSE 0]

\* Field(ge=0.0, le=100.0) of ChecklistItemResponse and ChecklistResponse
view_is_valid(view) ==
    /\ view.overall_progress >= 0 /\ view.overall_progress <= 100
    /\ \A it \in view.items :
          it.progress_percentage >= 0 /\ it.progress_percentage <= 100

get_intake_checklist(intake_id) ==
    /\ response' = IF intake_id \notin DOMAIN intakes
                   THEN 404
                   ELSE IF view_is_valid(checklist_view(checklist_items,
                                                        intakes, intake_id))
                   THEN 200
                   ELSE 500
    /\ UNCHANGED <<clients, intakes, checklist_items, documents>>

\* Identifiers a request may name: every row of the table and one that is
\* not there.
ClientIds == 1..(Len(clients) + 1)
IntakeIds == 1..(Len(intakes) + 1)
DocIds    == 1..(Len(documents) + 1)

\* File contents are interchangeable, so a request offers every content some
\* document already holds and the first one none holds yet.
offered(b) ==
    b <= Cardinality({documents[k].sha256 : k \in DOMAIN documents}) + 1

\* Requests with the full range of classification outcomes, against one
\* fiscal year and one file name.
Next ==
    \/ \E e \in Emails, c \in ClientComplexity : create_client(e, c)
           /\ UNCHANGED inflight
    \/ \E c \in ClientIds : create_intake(c, FirstYear)
           /\ UNCHANGED inflight
    \/ \E i \in IntakeIds, b \in Contents :
           offered(b) /\ upload_document(i, "T4_sample.JPG", b)
           /\ UNCHANGED inflight
    \/ \E d \in DocIds, o \in ClassifyOutcomes : classify_document(d, o)
           /\ UNCHANGED inflight
    \/ \E d \in DocIds, o \in ExtractOutcomes : extract_document(d, o)
           /\ UNCHANGED inflight
    \/ \E i \in IntakeIds :
         \E os \in [unknown_docs(documents, i) -> ClassifyOutcomes] :
           classify_intake_documents(i, os)
           /\ UNCHANGED inflight
    \/ \E i \in IntakeIds :
         \E os \in [classified_docs(documents, i) -> ExtractOutcomes] :
           extract_intake_documents(i, os)
           /\ UNCHANGED inflight
    \/ \E i \in IntakeIds : get_intake_checklist(i)
           /\ UNCHANGED inflight

Spec == Init /\ [][Next]_vars

\* Requests over several fiscal years and file names; the classifier answers
\* "T4" or fails.
NextMulti ==
    \/ \E e \in Emails, c \in ClientComplexity : create_client(e, c)
           /\ UNCHANGED inflight
    \/ \E c \in ClientIds, y \in FiscalYears : create_intake(c, y)
           /\ UNCHANGED inflight
    \/ \E i \in IntakeIds, f \in Filenames, b \in Contents :
           offered(b) /\ upload_document(i, f, b)
           /\ UNCHANGED inflight
    \/ \E d \in DocIds, o \in {"T4", "raise"} : classify_document(d, o)
           /\ UNCHANGED inflight
    \/ \E d \in DocIds, o \in ExtractOutcomes : extract_document(d, o)
           /\ UNCHANGED inflight
    \/ \E i \in IntakeIds :
         \E os \in [unknown_docs(documents, i) -> {"T4", "raise"}] :
           classify_intake_documents(i, os)
           /\ UNCHANGED inflight
    \/ \E i \in IntakeIds :
         \E os \in [classified_docs(documents, i) -> ExtractOutcomes] :
           extract_intake_documents(i, os)
           /\ UNCHANGED inflight
    \/ \E i \in IntakeIds : get_intake_checklist(i)
           /\ UNCHANGED inflight

SpecMulti == Init /\ [][NextMulti]_vars

\* ------------------------------------------- status derivation on its own
\* check_and_update_intake_status applied to one stored intake whose
\* checklist rows are drawn freely: per kind no row, or a row with the
\* quantity_expected create_intake can give it and any status and count.
ItemChoices(doc_kind) ==
    [present : BOOLEAN, status : ChecklistStatus,
     quantity_expected : IF doc_kind = "receipt" THEN {2, 5} ELSE {1},
     quantity_received : 0..MaxDocs]

InitDerive ==
    /\ \E c \in ClientComplexity :
          clients = <<[email |-> "test@example.com", complexity |-> c]>>
    /\ intakes = <<[client_id |-> 1, fiscal_year |-> FirstYear,
                    status |-> "open"]>>
    /\ \E t \in ItemChoices("T4"), i \in ItemChoices("id"),
          r \in ItemChoices("receipt") :
          LET f == [k \in {"T4", "id", "receipt"} |->
                       IF k = "T4" THEN t ELSE IF k = "id" THEN i ELSE r]
          IN  checklist_items =
                {[intake_id |-> 1, doc_kind |-> k, status |-> f[k].status,
                  quantity_expected |-> f[k].quantity_expected,
                  quantity_received |-> f[k].quantity_received]
                 : k \in {k2 \in {"T4", "id", "receipt"} : f[k2].present}}
    /\ documents = <<>>
    /\ response = 0
    /\ inflight = [p \in Procs |-> Idle]

derive_status(intake_id) ==
    /\ intakes' = check_and_update_intake_status(checklist_items, intakes,
                                                 intake_id)
    /\ UNCHANGED <<clients, checklist_items, documents, response>>

NextDerive == \E i \in IntakeIds : derive_status(i) /\ UNCHANGED inflight

SpecDerive == InitDerive /\ [][NextDerive]_vars

\* ------------------------------- extract_document, one awaited call a step
\* The session-local values of request p while it runs: the document it
\* extracts, the checklist item row as loaded (loaded), the recount
\* (extracted_count) and the number of missing items (missing_items).
\* While a request runs, its document keeps the kind and intake it had when
\* the request refreshed it (no classification runs on classified documents
\* in these specifications).
doc_of(p) == documents[inflight[p].document_id]

item_of(p) ==
    {it \in checklist_items : /\ it.intake_id = doc_of(p).intake_id
                              /\ it.doc_kind = doc_of(p).doc_kind}

finish(p, status_code) ==
    /\ inflight' = [inflight EXCEPT ![p] = Idle]
    /\ response' = status_code

\* documents.py lines 80-115: lookup, checks, the extraction call, store and
\* commit of extracted_data, refresh.
extract_begin(p, document_id, outcome) ==
    /\ inflight[p].pc = "idle"
    /\ IF document_id \notin DOMAIN documents
       THEN /\ response' = 404
            /\ UNCHANGED <<clients, intakes, checklist_items, documents,
                           inflight>>
       ELSE IF documents[document_id].doc_kind = "unknown"
       THEN /\ response' = 400
            /\ UNCHANGED <<clients, intakes, checklist_items, documents,
                           inflight>>
       ELSE IF outcome = "raise"
       THEN /\ response' = 500
            /\ UNCHANGED <<clients, intakes, checklist_items, documents,
                           inflight>>
       ELSE /\ documents' = [documents EXCEPT
                                ![document_id].extracted_data = Fields]
            /\ inflight' = [inflight EXCEPT
                               ![p] = [Idle EXCEPT !.pc = "select_item",
                                                   !.document_id = document_id]]
            /\ UNCHANGED <<clients, intakes, checklist_items, response>>

\* checklist_service.py lines 20-29: the query for the matching item
extract_select_item(p) ==
    /\ inflight[p].pc = "select_item"
    /\ IF Cardinality(item_of(p)) # 1
       THEN finish(p, 200)
       ELSE LET checklist_item == CHOOSE it \in item_of(p) : TRUE
            IN  /\ inflight' = [inflight EXCEPT
                      ![p].pc = "recount",
                      ![p].loaded =
                          [quantity_received |-> checklist_item.quantity_received,
                           status |-> checklist_item.status]]
                /\ UNCHANGED response
    /\ UNCHANGED <<clients, intakes, checklist_items, documents>>

\* checklist_service.py lines 31-38: the recount query
extract_recount(p) ==
    /\ inflight[p].pc = "recount"
    /\ inflight' = [inflight EXCEPT
          ![p].pc = "commit_item",
          ![p].extracted_count = extracted_count(documents,
                                                 doc_of(p).intake_id,
                                                 doc_of(p).doc_kind)]
    /\ UNCHANGED <<clients, intakes, checklist_items, documents, response>>

\* The row an UPDATE of the session's item leaves: the session assigned
\* count to quantity_received and, if count reaches quantity_expected,
\* "received" to status; a column is written when its assigned value
\* differs from the loaded one.
flush_item(row, loaded, count) ==
    [row EXCEPT
        !.quantity_received = IF count # loaded.quantity_received
                              THEN count ELSE @,
        !.status = IF count >= row.quantity_expected
                      /\ loaded.status # "received"
                   THEN "received" ELSE @]

\* checklist_service.py lines 40-44: the item write and its commit
extract_commit_item(p) ==
    /\ inflight[p].pc = "commit_item"
    /\ checklist_items' =
          {IF it \in item_of(p)
           THEN flush_item(it, inflight[p].loaded, inflight[p].extracted_count)
           ELSE it : it \in checklist_items}
    /\ inflight' = [inflight EXCEPT ![p].pc = "cascade"]
    /\ UNCHANGED <<clients, intakes, documents, response>>

\* checklist_service.py lines 56-69: the intake query and the query for the
\* missing items of check_and_update_intake_status; the handler returns
\* when some item is missing.
extract_cascade(p) ==
    /\ inflight[p].pc = "cascade"
    /\ LET missing_items ==
              Cardinality({it \in checklist_items :
                              /\ it.intake_id = doc_of(p).intake_id
                              /\ it.status = "missing"})
       IN  IF missing_items = 0
           THEN /\ inflight' = [inflight EXCEPT
                                   ![p].pc = "commit_status",
                                   ![p].missing_items = missing_items]
                /\ UNCHANGED response
           ELSE finish(p, 200)
    /\ UNCHANGED <<clients, intakes, checklist_items, documents>>

\* checklist_service.py lines 70-71: the status write and its commit
extract_commit_status(p) ==
    /\ inflight[p].pc = "commit_status"
    /\ intakes' = [intakes EXCEPT ![doc_of(p).intake_id].status = "done"]
    /\ finish(p, 200)
    /\ UNCHANGED <<clients, checklist_items, documents>>

\* An awaited database call of the reconciliation raises: the exception
\* reaches the except clause of extract_document (documents.py lines
\* 125-130), which answers 500; what earlier commits wrote stays.
extract_db_failure(p) ==
    /\ inflight[p].pc \in {"select_item", "recount", "commit_item",
                           "cascade", "commit_status"}
    /\ finish(p, 500)
    /\ UNCHANGED <<clients, intakes, checklist_items, documents>>

\* The steps of request p
extract_step(p) ==
    \/ \E d \in DocIds, o \in ExtractOutcomes : extract_begin(p, d, o)
    \/ extract_select_item(p)
    \/ extract_recount(p)
    \/ extract_commit_item(p)
    \/ extract_cascade(p)
    \/ extract_commit_status(p)

\* Kinds the classifier answers in the stepwise specifications
ClassifiedKinds == {"T4", "id", "receipt"}

\* Two extract requests interleaving at their awaited database calls, after
\* requests that prepare the documents (each document is classified once),
\* and checklist reads between any two of their steps.
NextInterleaved ==
    \/ \E e \in Emails, c \in ClientComplexity : create_client(e, c)
           /\ UNCHANGED inflight
    \/ \E c \in ClientIds : create_intake(c, FirstYear)
           /\ UNCHANGED inflight
    \/ \E i \in IntakeIds, b \in Contents :
           offered(b) /\ upload_document(i, "T4_sample.JPG", b)
           /\ UNCHANGED inflight
    \/ \E d \in DOMAIN documents, o \in ClassifiedKinds :
           documents[d].doc_kind = "unknown" /\ classify_document(d, o)
           /\ UNCHANGED inflight
    \/ \E p \in Procs : extract_step(p)
    \/ \E i \in IntakeIds : get_intake_checklist(i)
           /\ UNCHANGED inflight

SpecInterleaved == Init /\ [][NextInterleaved]_vars

\* One extract request whose awaited database calls can raise
NextFailing ==
    \/ \E e \in Emails, c \in ClientComplexity : create_client(e, c)
           /\ UNCHANGED inflight
    \/ \E c \in ClientIds : create_intake(c, FirstYear)
           /\ UNCHANGED inflight
    \/ \E i \in IntakeIds, b \in Contents :
           offered(b) /\ upload_document(i, "T4_sample.JPG", b)
           /\ UNCHANGED inflight
    \/ \E d \in DOMAIN documents, o \in ClassifiedKinds :
           documents[d].doc_kind = "unknown" /\ classify_document(d, o)
           /\ UNCHANGED inflight
    \/ extract_step("A")
    \/ extract_db_failure("A")

SpecFailing == Init /\ [][NextFailing]_vars

\* ------------------------------------- create_intake, lookups then insert
\* intakes.py lines 49-72: the client lookup and the lookup of an intake for
\* (client_id, fiscal_year)
create_intake_begin(p, client_id, fiscal_year) ==
    /\ inflight[p].pc = "idle"
    /\ IF client_id \notin DOMAIN clients
       THEN /\ response' = 404
            /\ UNCHANGED inflight
       ELSE IF \E i \in DOMAIN intakes :
                  /\ intakes[i].client_id = client_id
                  /\ intakes[i].fiscal_year = fiscal_year
       THEN /\ response' = 409
            /\ UNCHANGED inflight
       ELSE /\ inflight' = [inflight EXCEPT
                               ![p] = [Idle EXCEPT !.pc = "insert",
                                                   !.client_id = client_id,
                                                   !.fiscal_year = fiscal_year]]
            /\ UNCHANGED response
    /\ UNCHANGED <<clients, intakes, checklist_items, documents>>

\* intakes.py lines 74-124: the insert of the intake and of its checklist
\* items; neither the intakes table (models/intake.py lines 19-25) nor the
\* handler has a uniqueness check at this point.
create_intake_insert(p) ==
    /\ inflight[p].pc = "insert"
    /\ Len(intakes) < MaxIntakes
    /\ intakes' = Append(intakes, [client_id |-> inflight[p].client_id,
                                   fiscal_year |-> inflight[p].fiscal_year,
                                   status |-> "open"])
    /\ checklist_items' = checklist_items \cup
           new_checklist_items(Len(intakes) + 1,
                               clients[inflight[p].client_id].complexity)
    /\ finish(p, 201)
    /\ UNCHANGED <<clients, documents>>

\* Two create_intake requests interleaving between lookup and insert
NextCreateRace ==
    \/ \E e \in Emails, c \in ClientComplexity : create_client(e, c)
           /\ UNCHANGED inflight
    \/ \E p \in Procs, c \in ClientIds, y \in FiscalYears :
           create_intake_begin(p, c, y)
    \/ \E p \in Procs : create_intake_insert(p)

SpecCreateRace == Init /\ [][NextCreateRace]_vars

\* =================================================================== claims

\* The requirement policy as the specification states it (section 4.1):
\* tier -> set of <<kind, expected quantity>>.
Requirements(tier) ==
    IF tier = "simple" THEN {<<"T4", 1>>, <<"id", 1>>}
    ELSE IF tier = "average" THEN {<<"T4", 1>>, <<"id", 1>>, <<"receipt", 2>>}
    ELSE {<<"T4", 1>>, <<"id", 1>>, <<"receipt", 5>>}

TierOf(intake_id) == clients[intakes[intake_id].client_id].complexity

\* C1: in every reachable state, every checklist item (I, K) has
\* quantity_received equal to the number of documents currently in I with
\* kind K that have extracted data.
C1_RecountInvariant ==
    \A it \in checklist_items :
        it.quantity_received
            = extracted_count(documents, it.intake_id, it.doc_kind)

\* C2: in every reachable state, every checklist item has status 'received'
\* if and only if quantity_received >= quantity_expected, and 'missing'
\* otherwise.
C2_StatusIffComplete ==
    \A it \in checklist_items :
        /\ it.status \in ChecklistStatus
        /\ it.status = "received" <=> item_is_complete(it)

\* C3: between requests, an intake's stored status is 'done' if and only if
\* its set of checklist items is non-empty and every item is 'received'
\* (otherwise 'open'); i.e. it agrees with Intake.is_complete.
C3_StatusAgrees ==
    \A i \in DOMAIN intakes :
        /\ intakes[i].status \in IntakeStatus
        /\ intakes[i].status = "done"
              <=> /\ ItemsOf(checklist_items, i) # {}
                  /\ \A it \in ItemsOf(checklist_items, i) :
                        it.status = "received"
        /\ (intakes[i].status = "done") = is_complete(checklist_items, i)

\* An intake that reconciliation has marked done.
C3_Witness ==
    \E i \in DOMAIN intakes :
        /\ intakes[i].status = "done"
        /\ \E d \in DOMAIN documents : /\ documents[d].intake_id = i
                                        /\ documents[d].extracted_data # NULL

\* C4: a successful create-intake adds exactly the checklist items the
\* client's tier prescribes (simple {(T4,1),(id,1)}, average + (receipt,2),
\* complex + (receipt,5)), all 'missing' with quantity_received 0; their
\* quantity_expected sums to 2, 4, 8 = the client's expected_document_count.
C4_CreateIntakePolicy ==
    [][\A c \in DOMAIN clients, y \in FiscalYears :
         (create_intake(c, y) /\ response' = 201) =>
            LET i    == Len(intakes')
                tier == clients[c].complexity
                new  == checklist_items' \ checklist_items
                sum  == SumOver(new, "quantity_expected")
            IN  /\ i = Len(intakes) + 1
                /\ checklist_items \subseteq checklist_items'
                /\ ItemsOf(checklist_items', i) = new
                /\ {<<it.doc_kind, it.quantity_expected>> : it \in new}
                      = Requirements(tier)
                /\ Cardinality(new) = Cardinality(Requirements(tier))
                /\ \A it \in new : /\ it.status = "missing"
                                    /\ it.quantity_received = 0
                /\ sum = expected_document_count(tier)
                /\ sum = (IF tier = "simple" THEN 2
                          ELSE IF tier = "average" THEN 4 ELSE 8)]_vars

\* C5: reconciling twice in a row for the same document leaves the checklist
\* items and the intake status as reconciling once does; extracting a
\* document again right after extracting it changes nothing (its
\* quantity_received does not grow).
C5_Idempotent ==
    \A d \in DOMAIN documents :
        /\ LET r1 == update_checklist_for_document(checklist_items, intakes,
                                                   documents, d)
               r2 == update_checklist_for_document(r1.items, r1.intakes,
                                                   documents, d)
           IN  r2 = r1
        /\ documents[d].doc_kind # "unknown" =>
              LET w1 == extract_write(documents, checklist_items, intakes, d)
                  w2 == extract_write(w1.documents, w1.items, w1.intakes, d)
              IN  w2 = w1

\* A document that was extracted and counted by reconciliation.
C5_Witness ==
    \E d \in DOMAIN documents :
        /\ documents[d].extracted_data # NULL
        /\ \E it \in checklist_items :
              /\ it.intake_id = documents[d].intake_id
              /\ it.doc_kind = documents[d].doc_kind
              /\ it.quantity_received >= 1

ExtractedOfKinds(intake_id, kinds) ==
    {k \in DOMAIN documents : /\ documents[k].intake_id = intake_id
                              /\ documents[k].doc_kind \in kinds
                              /\ documents[k].extracted_data # NULL}

\* C7: for every tier, once each required kind has exactly its expected
\* number of documents of that kind with extracted data, every checklist
\* item is 'received', the intake is 'done', is_complete is true,
\* total_received = total_expected and overall progress is 100.
C7_DoneWhenAllExtracted ==
    \A i \in DOMAIN intakes :
        (\A r \in Requirements(TierOf(i)) :
            extracted_count(documents, i, r[1]) = r[2])
        => LET v == checklist_view(checklist_items, intakes, i)
           IN  /\ \A it \in ItemsOf(checklist_items, i) :
                     it.status = "received"
               /\ intakes[i].status = "done"
               /\ v.is_complete
               /\ v.total_received = v.total_expected
               /\ v.overall_progress = 100

\* C8: while some required kind of an intake has fewer extracted documents
\* than its expected quantity, the intake is 'open', is_complete is false
\* and total_received of the checklist view is the number of extracted
\* documents of required kinds.
C8_OpenWhileShort ==
    \A i \in DOMAIN intakes :
        (\E r \in Requirements(TierOf(i)) :
            extracted_count(documents, i, r[1]) < r[2])
        => LET v == checklist_view(checklist_items, intakes, i)
           IN  /\ intakes[i].status = "open"
               /\ v.is_complete = FALSE
               /\ v.total_received
                     = Cardinality(ExtractedOfKinds(
                           i, {r[1] : r \in Requirements(TierOf(i))}))

\* Some document of the intake already holds the fingerprint of content b.
HoldsContent(intake_id, b) ==
    \E k \in DOMAIN documents :
        /\ documents[k].intake_id = intake_id
        /\ documents[k].sha256 = calculate_sha256(b)

\* C9: no two documents of one intake ever share a content fingerprint: an
\* upload of bytes whose fingerprint the intake already holds is answered
\* 409 whatever the file name, adds no document and changes no checklist
\* item.
C9_DuplicateRejected ==
    /\ [](\A d1, d2 \in DOMAIN documents :
            (d1 # d2 /\ documents[d1].intake_id = documents[d2].intake_id)
                => documents[d1].sha256 # documents[d2].sha256)
    /\ [][\A i \in DOMAIN intakes, f \in Filenames, b \in Contents :
            (HoldsContent(i, b) /\ upload_document(i, f, b)) =>
                /\ response' = 409
                /\ documents' = documents
                /\ checklist_items' = checklist_items]_vars

\* A rejected request while an intake holds a document under one file name
\* and none under the other one.
C9_Witness ==
    /\ response = 409
    /\ \E k \in DOMAIN documents :
          /\ documents[k].filename = "T4_sample.JPG"
          /\ \A j \in DOMAIN documents :
                documents[j].intake_id = documents[k].intake_id
                    => documents[j].filename = "T4_sample.JPG"

\* C10: duplicate detection is per intake: an upload to intake I2 of content
\* I2 does not hold yet succeeds (201) whether or not another intake holds
\* the same content, stores the fingerprint every other copy of the content
\* has, and leaves the other documents, every checklist item and every
\* intake unchanged.
C10_OtherIntakeUnaffected ==
    [][\A i2 \in DOMAIN intakes, f \in Filenames, b \in Contents :
         (~HoldsContent(i2, b) /\ upload_document(i2, f, b)) =>
            /\ response' = 201
            /\ Len(documents') = Len(documents) + 1
            /\ documents'[Len(documents')].intake_id = i2
            /\ documents'[Len(documents')].sha256 = calculate_sha256(b)
            /\ \A k \in DOMAIN documents : documents'[k] = documents[k]
            /\ checklist_items' = checklist_items
            /\ intakes' = intakes]_vars

\* The same content stored in two intakes, the first of which has a
\* reconciled checklist item.
C10_Witness ==
    /\ response = 201
    /\ \E d1, d2 \in DOMAIN documents :
          /\ d1 < d2
          /\ documents[d1].intake_id # documents[d2].intake_id
          /\ documents[d1].sha256 = documents[d2].sha256
          /\ documents[d1].extracted_data # NULL
          /\ documents[d2].doc_kind = "unknown"

\* The intake of document d has no checklist item for the document's kind.
NoItemForKind(d) ==
    ~\E it \in checklist_items : /\ it.intake_id = documents[d].intake_id
                                 /\ it.doc_kind = documents[d].doc_kind

\* C11: extracting a document whose kind has no checklist item in its intake
\* (a receipt of a simple-tier client) reconciles nothing: no checklist item
\* is created or changed, and the intake statuses and is_complete stay as
\* they were.
C11_NoItemNoOp ==
    [][\A d \in DOMAIN documents, o \in ExtractOutcomes :
         (documents[d].doc_kind # "unknown" /\ NoItemForKind(d)
            /\ extract_document(d, o)) =>
            /\ checklist_items' = checklist_items
            /\ intakes' = intakes
            /\ \A i \in DOMAIN intakes :
                  is_complete(checklist_items', i)
                      = is_complete(checklist_items, i)]_vars

\* An extracted receipt in an intake that has no receipt item.
C11_Witness ==
    /\ response = 200
    /\ \E d \in DOMAIN documents :
          /\ documents[d].doc_kind = "receipt"
          /\ documents[d].extracted_data # NULL
          /\ NoItemForKind(d)

\* C12: counting is extraction-gated: an upload, a classification and a
\* batch classification change no checklist item and no intake, and a
\* document without extracted data (unclassified, or classified and not
\* yet extracted) is never counted: no item's quantity_received exceeds the
\* number of documents of its intake that have extracted data.
C12_ExtractionGated ==
    /\ [](\A it \in checklist_items :
            it.quantity_received
                <= Cardinality({k \in DOMAIN documents :
                       /\ documents[k].intake_id = it.intake_id
                       /\ documents[k].extracted_data # NULL}))
    /\ [][\/ checklist_items' = checklist_items /\ intakes' = intakes
          \/ ~ \/ \E i \in IntakeIds, f \in Filenames, b \in Contents :
                     upload_document(i, f, b)
               \/ \E d \in DocIds, o \in ClassifyOutcomes :
                     classify_document(d, o)
               \/ \E i \in IntakeIds :
                    \E os \in [unknown_docs(documents, i) -> ClassifyOutcomes] :
                       classify_intake_documents(i, os)
       ]_vars

\* Two documents classified alike, one extracted and counted, the other not
\* extracted.
C12_Witness ==
    \E d1, d2 \in DOMAIN documents :
        /\ documents[d1].intake_id = documents[d2].intake_id
        /\ documents[d1].doc_kind = documents[d2].doc_kind
        /\ documents[d1].extracted_data # NULL
        /\ documents[d2].extracted_data = NULL
        /\ \E it \in checklist_items :
              /\ it.intake_id = documents[d1].intake_id
              /\ it.doc_kind = documents[d1].doc_kind
              /\ it.quantity_received = 1

\* C13: a request to extract a document of kind 'unknown' is answered 400
\* whatever the extraction capability would have returned (it is not
\* called), and the documents, the checklist items and the intakes are
\* unchanged.
C13_UnknownRejected ==
    [][\A d \in DOMAIN documents, o \in ExtractOutcomes :
         (documents[d].doc_kind = "unknown" /\ extract_document(d, o)) =>
            /\ response' = 400
            /\ documents' = documents
            /\ checklist_items' = checklist_items
            /\ intakes' = intakes]_vars

\* A rejected request while an unclassified document without data is stored.
C13_Witness ==
    /\ response = 400
    /\ \E d \in DOMAIN documents : /\ documents[d].doc_kind = "unknown"
                                    /\ documents[d].extracted_data = NULL

\* C14: when the classification capability raises or returns a value
\* outside the kind enumeration, the single-document request answers an
\* error (500) and the batch skips the document; in both the document keeps
\* its stored kind and extracted data, and no checklist item changes.
C14_ClassifyFailureKeepsKind ==
    [][/\ \A d \in DOMAIN documents, o \in ClassifyOutcomes \ DocKind :
            classify_document(d, o) =>
               /\ response' = 500
               /\ documents' = documents
               /\ checklist_items' = checklist_items
               /\ intakes' = intakes
       /\ \/ checklist_items' = checklist_items /\ intakes' = intakes
          \/ ~\E i \in DOMAIN intakes :
                \E os \in [unknown_docs(documents, i) -> ClassifyOutcomes] :
                   classify_intake_documents(i, os)
       /\ \A i \in DOMAIN intakes :
            \A k \in unknown_docs(documents, i) :
               \/ documents'[k] = documents[k]
               \/ ~\E os \in [unknown_docs(documents, i) -> ClassifyOutcomes] :
                      os[k] \notin DocKind /\ classify_intake_documents(i, os)
      ]_vars

\* An error answer while a classified and extracted document is stored.
C14_Witness ==
    /\ response = 500
    /\ \E d \in DOMAIN documents : /\ documents[d].doc_kind = "T4"
                                    /\ documents[d].extracted_data # NULL

\* C15: when the extraction capability raises, the single-document extract
\* request answers an error (500) after that one call, and the documents
\* (kind and extracted data), the checklist items and the intakes are as
\* before the request.
C15_ExtractFailureNoChange ==
    [][\A d \in DOMAIN documents :
         (documents[d].doc_kind # "unknown" /\ extract_document(d, "raise")) =>
            /\ response' = 500
            /\ documents' = documents
            /\ checklist_items' = checklist_items
            /\ intakes' = intakes]_vars

\* An error answer while a classified document without data is stored.
C15_Witness ==
    /\ response = 500
    /\ \E d \in DOMAIN documents : /\ documents[d].doc_kind = "receipt"
                                    /\ documents[d].extracted_data = NULL

\* The client has an intake for the fiscal year.
HasIntake(client_id, fiscal_year) ==
    \E i \in DOMAIN intakes : /\ intakes[i].client_id = client_id
                              /\ intakes[i].fiscal_year = fiscal_year

\* C17: no two intakes share (client, fiscal year): creating an intake for a
\* pair that has one is answered 409 and for an unknown client 404, both
\* creating no intake and no checklist item; for an existing client and a
\* year it has no intake for, the intake is created (201) even when the
\* client has intakes for other years.
C17_IntakeUniquePerYear ==
    /\ [](\A i1, i2 \in DOMAIN intakes :
            (/\ intakes[i1].client_id = intakes[i2].client_id
             /\ intakes[i1].fiscal_year = intakes[i2].fiscal_year)
                => i1 = i2)
    /\ [][\A c \in ClientIds, y \in FiscalYears :
            create_intake(c, y) =>
               IF c \notin DOMAIN clients
               THEN /\ response' = 404
                    /\ intakes' = intakes
                    /\ checklist_items' = checklist_items
               ELSE IF HasIntake(c, y)
               THEN /\ response' = 409
                    /\ intakes' = intakes
                    /\ checklist_items' = checklist_items
               ELSE /\ response' = 201
                    /\ Len(intakes') = Len(intakes) + 1
                    /\ intakes'[Len(intakes')].client_id = c
                    /\ intakes'[Len(intakes')].fiscal_year = y
                    /\ \A i \in DOMAIN intakes : intakes'[i] = intakes[i]
         ]_vars

\* A client with intakes for two fiscal years, and a rejected request.
C17_Witness ==
    /\ response = 409
    /\ \E i1, i2 \in DOMAIN intakes :
          /\ intakes[i1].client_id = intakes[i2].client_id
          /\ intakes[i1].fiscal_year # intakes[i2].fiscal_year

\* Sum of a quantity over the stored checklist items of an intake, item by
\* item in kind order.
TotalOf(intake_id, field) ==
    LET q(kind) == IF \E it \in checklist_items :
                         it.intake_id = intake_id /\ it.doc_kind = kind
                   THEN (CHOOSE it \in checklist_items :
                            it.intake_id = intake_id /\ it.doc_kind = kind)[field]
                   ELSE 0
    IN  q("T4") + q("id") + q("receipt")

\* C18: the checklist view of every intake reports total_expected and
\* total_received as the sums of quantity_expected and quantity_received
\* over the intake's items and overall progress as 100 * total_received /
\* total_expected (whole percent), 0 when total_expected is 0 (the view
\* over an empty item set); reading the view changes no stored state.
C18_ViewTotals ==
    /\ [](\A i \in DOMAIN intakes :
            LET v  == checklist_view(checklist_items, intakes, i)
                v0 == checklist_view({}, intakes, i)
            IN  /\ v.total_expected = TotalOf(i, "quantity_expected")
                /\ v.total_received = TotalOf(i, "quantity_received")
                /\ v.total_expected > 0
                /\ v.overall_progress
                      = (100 * TotalOf(i, "quantity_received"))
                            \div TotalOf(i, "quantity_expected")
                /\ v0.total_expected = 0
                /\ v0.total_received = 0
                /\ v0.overall_progress = 0)
    /\ [][\/ UNCHANGED <<clients, intakes, checklist_items, documents>>
          \/ ~\E i \in IntakeIds : get_intake_checklist(i)
         ]_vars

\* A checklist read answered for an intake with a partly received item.
C18_Witness ==
    /\ response = 200
    /\ \E it \in checklist_items :
          /\ it.quantity_received = 1
          /\ it.quantity_expected = 2
          /\ checklist_view(checklist_items, intakes,
                            it.intake_id).overall_progress = 25

\* C19: every stored checklist item has quantity_expected >= 1: a kind
\* whose required quantity is 0 gets no item, so a simple-tier intake has
\* no receipt item.
C19_NoZeroExpected ==
    /\ \A it \in checklist_items : it.quantity_expected >= 1
    /\ \A i \in DOMAIN intakes :
          TierOf(i) = "simple" =>
              ~\E it \in checklist_items : /\ it.intake_id = i
                                           /\ it.doc_kind = "receipt"

\* A simple-tier intake with its checklist.
C19_Witness ==
    \E i \in DOMAIN intakes :
        /\ TierOf(i) = "simple"
        /\ ItemsOf(checklist_items, i) # {}
        /\ expected_receipt_count(TierOf(i)) = 0

\* No extract request is in progress.
Quiescent == \A p \in Procs : inflight[p].pc = "idle"

\* C16: reconciliation never partially applies: when a step after the
\* store of the extracted data fails, the item update and the intake-status
\* update are both persisted or neither is, so once the request has ended
\* no intake is left with every item 'received' and a status that was not
\* re-derived.
C16_NoPartialReconciliation ==
    Quiescent =>
        \A i \in DOMAIN intakes :
            (intakes[i].status = "done")
                = (/\ ItemsOf(checklist_items, i) # {}
                   /\ \A it \in ItemsOf(checklist_items, i) :
                         it.status = "received")

\* C20: two extract requests for two documents of one kind in one intake
\* that interleave at their queries and commits lose no update: once both
\* have ended, every item's quantity_received is the number of documents of
\* its kind with extracted data, its status says whether that reaches
\* quantity_expected, and the intake is 'done' exactly when all its items
\* are 'received'.
C20_NoLostUpdate ==
    Quiescent =>
        /\ \A it \in checklist_items :
              /\ it.quantity_received
                    = Cardinality({k \in DOMAIN documents :
                          /\ documents[k].intake_id = it.intake_id
                          /\ documents[k].doc_kind = it.doc_kind
                          /\ documents[k].extracted_data # NULL})
              /\ (it.status = "received")
                    = (it.quantity_received >= it.quantity_expected)
        /\ \A i \in DOMAIN intakes :
              (intakes[i].status = "done")
                  = (\A it \in ItemsOf(checklist_items, i) :
                        it.status = "received")

\* C21: the item update and the intake-status update of a reconciliation
\* are one unit for observers: the checklist view, read between any two
\* steps of running extract requests, never shows every item of an intake
\* 'received' together with intake status 'open'.
C21_NoTornRead ==
    \A i \in DOMAIN intakes :
        LET v == checklist_view(checklist_items, intakes, i)
        IN  ~ /\ v.items # {}
              /\ \A it \in v.items : it.status = "received"
              /\ v.intake_status = "open"

\* C22: reconciliation recomputes 'received': reconciling for an extracted
\* document whose item is 'received' while the recount is below
\* quantity_expected leaves the item 'missing'.
C22_BackToMissing ==
    \A d \in DOMAIN documents :
        (documents[d].doc_kind # "unknown" /\ documents[d].extracted_data # NULL)
        => LET r == update_checklist_for_document(checklist_items, intakes,
                                                  documents, d)
           IN  \A it \in r.items :
                  (/\ it.intake_id = documents[d].intake_id
                   /\ it.doc_kind = documents[d].doc_kind
                   /\ it.quantity_received < it.quantity_expected)
                      => it.status = "missing"

\* C23: an intake starts 'open' and its status only moves from 'open' to
\* 'done': no request returns a 'done' intake to 'open'.
C23_StatusOneWay ==
    [][/\ \A i \in DOMAIN intakes :
             /\ i \in DOMAIN intakes'
             /\ intakes[i].status = "done" => intakes'[i].status = "done"
       /\ \A i \in DOMAIN intakes' \ DOMAIN intakes :
             intakes'[i].status = "open"]_vars

\* A done intake that received a further upload and whose T4 document was
\* re-classified.
C23_Witness ==
    \E i \in DOMAIN intakes :
        /\ intakes[i].status = "done"
        /\ \E d \in DOMAIN documents : /\ documents[d].intake_id = i
                                        /\ documents[d].doc_kind = "unknown"
                                        /\ documents[d].extracted_data = NULL
        /\ ~\E d \in DOMAIN documents : /\ documents[d].intake_id = i
                                         /\ documents[d].doc_kind = "T4"

\* C24: once two concurrent create-intake requests for the same (client,
\* fiscal year) have both ended, one intake exists for the pair, with one
\* set of checklist items.
C24_OneIntakePerPair ==
    Quiescent =>
        \A i1, i2 \in DOMAIN intakes :
            (/\ intakes[i1].client_id = intakes[i2].client_id
             /\ intakes[i1].fiscal_year = intakes[i2].fiscal_year)
                => i1 = i2

\* C25: in every reachable state the checklist view of every intake meets
\* its schema bounds: every item's progress percentage and the overall
\* progress lie in 0..100, i.e. no item has quantity_received above
\* quantity_expected and total_received does not exceed total_expected.
C25_ViewWithinBounds ==
    \A i \in DOMAIN intakes :
        LET v == checklist_view(checklist_items, intakes, i)
        IN  /\ view_is_valid(v)
            /\ \A it \in v.items :
                  it.quantity_received <= it.quantity_expected
            /\ v.total_received <= v.total_expected

\* C26: in every reachable state an intake has at most one checklist item
\* per document kind, and no checklist item has kind 'unknown'.
C26_OneItemPerKind ==
    /\ \A it1, it2 \in checklist_items :
          (it1.intake_id = it2.intake_id /\ it1.doc_kind = it2.doc_kind)
              => it1 = it2
    /\ \A it \in checklist_items : /\ it.doc_kind \in DocKind
                                   /\ it.doc_kind # "unknown"

\* An intake with three items, one of them updated by reconciliation.
C26_Witness ==
    \E i \in DOMAIN intakes :
        /\ Cardinality(ItemsOf(checklist_items, i)) = 3
        /\ \E it \in ItemsOf(checklist_items, i) : it.quantity_received >= 1

\* The (intake, kind, quantity_expected) triples of the items of the intakes
\* in intks.
RequirementRows(itms, intks) ==
    {<<it.intake_id, it.doc_kind, it.quantity_expected>> :
        it \in {x \in itms : x.intake_id \in DOMAIN intks}}

\* C27: the requirement set of an intake is fixed at creation: no request
\* adds or removes a checklist item of an existing intake or changes an
\* item's kind or quantity_expected, and in every reachable state the
\* (kind, quantity_expected) pairs of an intake are the requirement policy
\* of its client's tier.
C27_RequirementsFixed ==
    /\ [](\A i \in DOMAIN intakes :
            /\ {<<it.doc_kind, it.quantity_expected>> :
                   it \in ItemsOf(checklist_items, i)}
                  = Requirements(TierOf(i))
            /\ Cardinality(ItemsOf(checklist_items, i))
                  = Cardinality(Requirements(TierOf(i))))
    /\ [][RequirementRows(checklist_items', intakes)
             = RequirementRows(checklist_items, intakes)]_vars

\* An extracted receipt in an intake whose tier requires no receipt, next to
\* a reconciled item.
C27_Witness ==
    \E i \in DOMAIN intakes :
        /\ TierOf(i) = "simple"
        /\ extracted_count(documents, i, "receipt") >= 1
        /\ \E it \in ItemsOf(checklist_items, i) : it.status = "received"

\* C29: in every reachable state a document with extracted data has a kind
\* other than 'unknown'; no request, re-classification of an extracted
\* document included, leaves extracted data on an 'unknown' document.
C29_ExtractedIsClassified ==
    \A d \in DOMAIN documents :
        documents[d].extracted_data # NULL => documents[d].doc_kind # "unknown"

\* C28: batch extraction skips and continues: a document whose extraction
\* fails and a document that already has extracted data are left as they
\* are, every other classified document of the intake gets extracted data,
\* total_extracted of the answer is the number of documents newly
\* extracted, and after the batch the item of every newly extracted
\* document holds the recount of its kind (with status 'received' when the
\* recount reaches quantity_expected) while the other items are untouched.
C28_BatchSkipAndContinue ==
    [][\A i \in DOMAIN intakes :
         \A os \in [classified_docs(documents, i) -> ExtractOutcomes] :
           (classified_docs(documents, i) # {}
              /\ extract_intake_documents(i, os)) =>
             LET new == {k \in classified_docs(documents, i) :
                            /\ documents[k].extracted_data = NULL
                            /\ os[k] = "ok"}
                 answer == extract_loop([documents |-> documents,
                                         items |-> checklist_items,
                                         intakes |-> intakes,
                                         extracted |-> <<>>],
                                        classified_docs(documents, i), os, 1)
                 touched(it) == /\ it.intake_id = i
                                /\ \E k \in new :
                                      documents[k].doc_kind = it.doc_kind
             IN  /\ response' = 200
                 /\ DOMAIN documents' = DOMAIN documents
                 /\ \A k \in DOMAIN documents :
                       documents'[k] =
                          IF k \in new
                          THEN [documents[k] EXCEPT !.extracted_data = Fields]
                          ELSE documents[k]
                 /\ Len(answer.extracted) = Cardinality(new)
                 /\ Cardinality(checklist_items') = Cardinality(checklist_items)
                 /\ \A it \in checklist_items :
                       IF touched(it)
                       THEN \E it2 \in checklist_items' :
                              /\ it2 = [it EXCEPT
                                          !.quantity_received = it2.quantity_received,
                                          !.status = it2.status]
                              /\ it2.quantity_received
                                    = Cardinality({k \in DOMAIN documents' :
                                         /\ documents'[k].intake_id = i
                                         /\ documents'[k].doc_kind = it.doc_kind
                                         /\ documents'[k].extracted_data # NULL})
                              /\ it2.quantity_received >= it2.quantity_expected
                                    => it2.status = "received"
                       ELSE it \in checklist_items'
      ]_vars

\* An answered batch after which one classified document has extracted data
\* and is counted, and another, of a different kind, has none.
C28_Witness ==
    /\ response = 200
    /\ \E d1, d2 \in DOMAIN documents :
          /\ documents[d1].intake_id = documents[d2].intake_id
          /\ documents[d1].doc_kind = "id"
          /\ documents[d1].extracted_data # NULL
          /\ documents[d2].doc_kind = "T4"
          /\ documents[d2].extracted_data = NULL
          /\ \E it \in checklist_items :
                /\ it.intake_id = documents[d1].intake_id
                /\ it.doc_kind = "id"
                /\ it.quantity_received = 1

\* C30: reconciliation for a document of kind K in intake I writes at most
\* the checklist item (I, K) and the status of I: the items of other kinds
\* of I, the items and the rows of the other intakes and all documents stay
\* as they are (an extract request changes, besides, only the extracted
\* data of its document).
C30_ReconciliationFrame ==
    /\ [](\A d \in DOMAIN documents :
            LET r == update_checklist_for_document(checklist_items, intakes,
                                                   documents, d)
                I == documents[d].intake_id
                K == documents[d].doc_kind
            IN  /\ \A it \in checklist_items :
                      (it.intake_id # I \/ it.doc_kind # K) => it \in r.items
                /\ Cardinality(r.items) = Cardinality(checklist_items)
                /\ DOMAIN r.intakes = DOMAIN intakes
                /\ \A i \in DOMAIN intakes :
                      r.intakes[i] = IF i = I
                                     THEN [intakes[i] EXCEPT
                                             !.status = r.intakes[i].status]
                                     ELSE intakes[i])
    /\ [][\A d \in DOMAIN documents :
            (documents[d].doc_kind # "unknown" /\ extract_document(d, "ok")) =>
               /\ documents' = [documents EXCEPT ![d].extracted_data = Fields]
               /\ \A it \in checklist_items :
                     (it.intake_id # documents[d].intake_id
                        \/ it.doc_kind # documents[d].doc_kind)
                           => it \in checklist_items'
               /\ \A i \in DOMAIN intakes :
                     i # documents[d].intake_id => intakes'[i] = intakes[i]
         ]_vars

\* Two intakes: the T4 item of one updated by reconciliation, that of the
\* other as created.
C30_Witness ==
    \E it1, it2 \in checklist_items :
        /\ it1.intake_id # it2.intake_id
        /\ it1.doc_kind = "T4" /\ it1.status = "received"
        /\ it2.doc_kind = "T4" /\ it2.status = "missing"
        /\ it2.quantity_received = 0

====
